---- MODULE Spec2Model ----
(***************************************************************************)
(* A model of the statistical estimation pipeline of portfolio_solver:     *)
(* the order-statistic estimator (expected_normdist_min), the e_min table  *)
(* built by Data::new (stats, cleanup_missing_rows, reshape), the slowdown *)
(* filter (filter_algorithms_by_slowdown) and the initial assignment of    *)
(* the solver (get_b_start, round_to_sum).                                 *)
(*                                                                         *)
(* Floating point values are modelled in fixed point: an f64 x is the      *)
(* integer x * Scale.  f64::MAX is the largest finite value F64_MAX, and   *)
(* an operation whose result exceeds it gives an infinity, as in IEEE 754. *)
(***************************************************************************)
EXTENDS Integers, Sequences, FiniteSets, TLC

VARIABLES
    \* expected_normdist_min applied to the rows of one (instance, algorithm) group
    mean_quality, std_quality, quality_lb, sample_size, e_min,
    \* the initial assignment of the solver: its inputs ...
    counts, num_threads, m, num_cores,
    \* ... the warm start get_b_start computes from them ...
    b_start,
    \* ... and round_to_sum(fractions, steps, sum) with its locals
    fractions, steps, sum, rounded, losses, remaining, round_pc,
    \* Data::new: the preprocessed data frame, the core budget (k), the lower bounds read ...
    df, core_budget, quality_lb_df,
    \* ... the fields of Data it computes ...
    instances, algorithms, stats,
    \* ... and its intermediate tables
    stats_df, clean_df, data_pc,
    \* filter_algorithms_by_slowdown(df, ..., slowdown_ratio): its arguments, the
    \* best time per instance it computes and the data frame it returns
    filter_df, slowdown_ratio, best_time_df, filtered_df, filter_pc,
    \* main: the exit status of the process
    exit_status,
    \* best_per_instance_count(df, ...): its data frame and the ranking it returns
    count_df, ranking, count_pc,
    \* preprocess_df and the start of Data::new: the rows of the csv files, the
    \* preprocessed data frame and the array best_per_instance
    raw_df, prep_df, best_per_instance_arr, prep_pc,
    \* cleanup_missing_rows(df, k, ...) applied twice: its arguments, the result
    \* of the first call and the result of the call on that result
    table_df, table_k, once_df, twice_df, cleanup_pc,
    \* stats_by_sampling(df, sample_size, ...) run twice: its arguments, the
    \* generator of the library as a table from the seed to its state, and
    \* the results of the two runs
    sample_df, sample_k, rng, first_run, second_run, sample_pc,
    \* stats(df, sample_size, .., quality_lb_path) of csv_parser/utils.rs
    stats_input, stats_k, lb_file, quality_lb_frame, stats_out, stats_pc,
    \* main after Data::new: solve, Portfolio::random and the portfolios it writes;
    data_algorithms, main_cores, args_random_portfolio, args_initial_portfolio, initial_portfolio, final_portfolio, random_portfolio, portfolios, main_pc,
    \* get_a_start(stats, num_cores) of solver.rs
    a_stats, a_num_cores, a_start, a_start_pc

emin_vars == <<mean_quality, std_quality, quality_lb, sample_size, e_min>>

heuristic_inputs == <<counts, num_threads, m, num_cores>>

round_vars == <<fractions, steps, sum, rounded, losses, remaining, round_pc>>

data_vars == <<df, core_budget, quality_lb_df, instances, algorithms, stats, stats_df, clean_df, data_pc>>

filter_vars == <<filter_df, slowdown_ratio, best_time_df, filtered_df, filter_pc, exit_status>>

\* the groups of variables of the solver helpers and of main
lb_vars == <<stats_input, stats_k, lb_file, quality_lb_frame, stats_out, stats_pc>>

main_vars == <<data_algorithms, main_cores, args_random_portfolio, args_initial_portfolio, initial_portfolio, final_portfolio, random_portfolio, portfolios, main_pc>>

a_start_vars == <<a_stats, a_num_cores, a_start, a_start_pc>>

driver_vars == <<lb_vars, main_vars, a_start_vars>>

\* stats(df, sample_size, .., quality_lb_path) of csv_parser/utils.rs is not called
NoLowerBound ==
    /\ stats_input = <<>> /\ stats_k = 0 /\ lb_file = <<>> /\ quality_lb_frame = <<>>
    /\ stats_out = <<>> /\ stats_pc = "idle"

\* main after Data::new: solve, Portfolio::random and the portfolios it writes; is not called
NoMain ==
    /\ data_algorithms = <<>> /\ main_cores = 0
    /\ args_random_portfolio = FALSE /\ args_initial_portfolio = FALSE
    /\ initial_portfolio = <<>> /\ final_portfolio = <<>> /\ random_portfolio = <<>>
    /\ portfolios = <<>> /\ main_pc = "idle"

\* get_a_start(stats, num_cores) of solver.rs is not called
NoAStart ==
    /\ a_stats = <<>> /\ a_num_cores = 0 /\ a_start = <<>> /\ a_start_pc = "idle"

NoDriver == NoLowerBound /\ NoMain /\ NoAStart

besides_lb_vars == <<main_vars, a_start_vars>>

Without_lb_vars == NoMain /\ NoAStart

besides_main_vars == <<lb_vars, a_start_vars>>

Without_main_vars == NoLowerBound /\ NoAStart

besides_a_start_vars == <<lb_vars, main_vars>>

Without_a_start_vars == NoLowerBound /\ NoMain

\* end of the groups

count_vars == <<count_df, ranking, count_pc>>

prep_vars == <<raw_df, prep_df, best_per_instance_arr, prep_pc>>

table_vars == <<table_df, table_k, once_df, twice_df, cleanup_pc>>

sampling_vars == <<sample_df, sample_k, rng, first_run, second_run, sample_pc>>

\* the variables of the helpers of the csv parser
helper_vars == <<count_vars, prep_vars, table_vars, sampling_vars, driver_vars>>

vars == <<emin_vars, heuristic_inputs, b_start, round_vars, data_vars, filter_vars, helper_vars>>

-----------------------------------------------------------------------------
(* Bounds of the model *)

\* the core budget k (Config::num_cores): replica counts range over 1..MaxCores
MaxCores == 4

\* the number of algorithms of an input
MaxAlgorithms == 2

\* the number of instances of an input
MaxInstances == 3

\* the largest thread count of an algorithm
MaxThreads == 3

\* the rows of a preprocessed data frame
MaxRows == 3

\* the rows of a data frame given to the slowdown filter
MaxFilterRows == 2

\* the instances and the algorithms the rows of a data frame are drawn from
DataInstances == 2

DataAlgorithms == 2

\* the core budget of Data::new
DataCores == 2

-----------------------------------------------------------------------------
(* f64 in fixed point *)

Scale == 1000

F64_MAX == 1000000

PosInf == F64_MAX + 1

NegInf == 0 - PosInf

\* rounding of a real result to the representable range
Saturate(x) == IF x > F64_MAX THEN PosInf ELSE IF x < 0 - F64_MAX THEN NegInf ELSE x

\* a * b for a, b >= 0
FMul(a, b) == Saturate((a * b) \div Scale)

\* a - b for a finite a
FSub(a, b) == IF b = PosInf THEN NegInf ELSE IF b = NegInf THEN PosInf ELSE Saturate(a - b)

\* f64::max
FMax(a, b) == IF a >= b THEN a ELSE b

RECURSIVE SqrtSearch(_, _, _)
SqrtSearch(x, lo, hi) ==
    IF lo >= hi THEN lo
    ELSE LET mid == (lo + hi + 1) \div 2
         IN IF mid * mid <= x THEN SqrtSearch(x, mid, hi) ELSE SqrtSearch(x, lo, mid - 1)

\* floor of the square root of x >= 0
ISqrt(x) == SqrtSearch(x, 0, 40000)

\* f64::ln(s) in units of 1 / (Scale * Scale), for the sample sizes of the model
LnTable == <<0, 693147, 1098612, 1386294, 1609438, 1791759, 1945910, 2079442>>

FLn(s) == LnTable[s]

-----------------------------------------------------------------------------
(* OrderStatisticEstimator: csv_parser.rs, expected_normdist_min *)

\* a variant that takes the logarithm of sample_size + 1
expected_maximum_approximation_shifted(s) == ISqrt(2 * FLn(s + 1))

\* sqrt(2 * ln(sample_size)), in fixed point
expected_maximum_approximation(s) == ISqrt(2 * FLn(s))

\* a variant without the assertion
expected_normdist_min_unasserted(mean, std, s, min) ==
    [panicked |-> FALSE,
     value |-> FMax(FSub(mean, FMul(std, expected_maximum_approximation(s))), min)]

\* a variant that adds the variance term instead of subtracting it
expected_normdist_min_added(mean, std, s, min) ==
    LET result == FMax(Saturate(mean + FMul(std, expected_maximum_approximation(s))), min)
    IN [panicked |-> ~(result >= 0), value |-> result]

\* The outcome of one call: the value returned, or the panic of the assertion
\* `result >= 0.0`, which aborts the whole computation.
expected_normdist_min(mean, std, s, min) ==
    LET result == FMax(FSub(mean, FMul(std, expected_maximum_approximation(s))), min)
    IN [panicked |-> ~(result >= 0), value |-> result]

\* inputs of the estimator: means and lower bounds of either sign, a standard
\* deviation that is 0, positive, or f64::MAX (what fill_null puts for a null)
MeanValues == {0 - 2000, 0, 1500, 3000, 4000}

StdValues == {0, 500, 2000, F64_MAX}

LowerBoundValues == {0 - 3000, 0 - 1000, 0, 1000, 3000}

EminRunning == IF e_min = <<>> THEN TRUE ELSE ~e_min[Len(e_min)].panicked

\* the initial assignment is not computed
NoHeuristic ==
    /\ counts = <<>> /\ num_threads = <<>> /\ m = 0 /\ num_cores = 0
    /\ b_start = <<>>
    /\ fractions = <<>> /\ steps = <<>> /\ sum = 0
    /\ rounded = <<>> /\ losses = <<>> /\ remaining = 0 /\ round_pc = "idle"

\* best_per_instance_count is not called
NoCount == count_df = <<>> /\ ranking = <<>> /\ count_pc = "idle"

\* the csv files are not read
NoPrep == raw_df = <<>> /\ prep_df = <<>> /\ best_per_instance_arr = <<>> /\ prep_pc = "idle"

\* cleanup_missing_rows is not called on a table of its own
NoTable ==
    /\ table_df = <<>> /\ table_k = 0 /\ once_df = <<>> /\ twice_df = <<>>
    /\ cleanup_pc = "idle"

\* stats_by_sampling is not called
NoSampling ==
    /\ sample_df = <<>> /\ sample_k = 0 /\ rng = <<>>
    /\ first_run = <<>> /\ second_run = <<>> /\ sample_pc = "idle"

\* the helpers of the csv parser are not called
NoHelpers == NoCount /\ NoPrep /\ NoTable /\ NoSampling /\ NoDriver

\* the process has not exited
NoExit == 0 - 1

\* filter_algorithms_by_slowdown is not called
NoFilter ==
    /\ filter_df = <<>> /\ slowdown_ratio = 0 /\ best_time_df = <<>>
    /\ filtered_df = <<>> /\ filter_pc = "idle" /\ exit_status = NoExit

\* Data::new is not called
NoData ==
    /\ df = <<>> /\ core_budget = 0 /\ quality_lb_df = <<>>
    /\ instances = <<>> /\ algorithms = <<>> /\ stats = <<>>
    /\ stats_df = <<>> /\ clean_df = <<>> /\ data_pc = "idle"

InitEmin ==
    /\ mean_quality \in MeanValues
    /\ std_quality \in StdValues
    /\ quality_lb \in LowerBoundValues
    /\ sample_size = 0
    /\ e_min = <<>>
    /\ NoHeuristic
    /\ NoData
    /\ NoFilter
    /\ NoHelpers

\* one row of the cross join with 1..=sample_size: the estimator is applied to
\* (mean, std, s, min); a panic ends the computation
EstimateRow ==
    /\ sample_size < MaxCores
    /\ EminRunning
    /\ sample_size' = sample_size + 1
    /\ e_min' = Append(e_min,
                   expected_normdist_min(mean_quality, std_quality, sample_size + 1, quality_lb))
    /\ UNCHANGED <<mean_quality, std_quality, quality_lb>>
    /\ UNCHANGED <<heuristic_inputs, b_start, round_vars, data_vars, filter_vars, helper_vars>>

NextEmin == EstimateRow

SpecEmin == InitEmin /\ [][NextEmin]_vars

\* mean - std * sqrt(2 ln s) for the group of the state, before clamping
RawEstimate(s) == FSub(mean_quality, FMul(std_quality, ISqrt(2 * FLn(s))))

\* C6: every call returns max(mean - std*sqrt(2 ln s), lower_bound), a value
\* >= lower_bound and >= 0, and it aborts on its assertion exactly when that
\* maximum is negative, which needs a negative lower bound.
C6_ClampedOrAborted ==
    \A k \in 1..Len(e_min) :
        LET r == e_min[k]
            clamped == FMax(RawEstimate(k), quality_lb)
        IN /\ r.panicked <=> clamped < 0
           /\ r.panicked => quality_lb < 0
           /\ ~r.panicked =>
                 /\ r.value = clamped
                 /\ r.value >= quality_lb
                 /\ r.value >= 0

\* a group whose first estimate is returned and whose second one aborts
C6_Witness ==
    /\ Len(e_min) = 2
    /\ ~e_min[1].panicked
    /\ e_min[2].panicked
    /\ quality_lb < 0

\* C7 as stated: for sample_size = 1 the call returns max(mean, lower_bound),
\* for every mean, every std >= 0 and every lower bound.
C7_Original ==
    Len(e_min) >= 1 =>
        /\ ~e_min[1].panicked
        /\ e_min[1].value = FMax(mean_quality, quality_lb)

\* C7 amended: for sample_size = 1 the call returns max(mean, lower_bound)
\* whenever that maximum is >= 0, whatever std >= 0 is; when the maximum is
\* negative the call aborts on its assertion.
C7_NoDiscountForOneSample ==
    Len(e_min) >= 1 =>
        IF FMax(mean_quality, quality_lb) >= 0
        THEN /\ ~e_min[1].panicked
             /\ e_min[1].value = FMax(mean_quality, quality_lb)
        ELSE e_min[1].panicked

\* a group with a positive standard deviation whose estimate for one sample
\* is its mean
C7_Witness ==
    /\ Len(e_min) >= 1
    /\ std_quality > 0
    /\ mean_quality > quality_lb
    /\ ~e_min[1].panicked
    /\ e_min[1].value = mean_quality

\* C8 as stated: for all s1 <= s2 the estimate for s2 is a value <= the
\* estimate for s1, and once the estimate is the lower bound it stays there.
C8_Original ==
    \A k1, k2 \in 1..Len(e_min) :
        k1 <= k2 =>
            /\ ~e_min[k1].panicked /\ ~e_min[k2].panicked
            /\ e_min[k2].value <= e_min[k1].value
            /\ e_min[k1].value = quality_lb => e_min[k2].value = quality_lb

\* C8 amended: for all s1 <= s2 at which the call returns (it aborts when the
\* clamped estimate is negative), the estimate for s2 is <= the estimate for
\* s1, and once the estimate is the lower bound it stays there.
C8_NonIncreasing ==
    \A k1, k2 \in 1..Len(e_min) :
        (k1 <= k2 /\ ~e_min[k1].panicked /\ ~e_min[k2].panicked) =>
            /\ e_min[k2].value <= e_min[k1].value
            /\ e_min[k1].value = quality_lb => e_min[k2].value = quality_lb

\* a group whose estimate falls strictly, reaches the lower bound and stays
C8_Witness ==
    /\ Len(e_min) = MaxCores
    /\ \A k \in 1..MaxCores : ~e_min[k].panicked
    /\ e_min[2].value < e_min[1].value
    /\ \E k \in 2..(MaxCores - 1) :
          /\ e_min[k - 1].value > quality_lb
          /\ e_min[k].value = quality_lb
          /\ e_min[MaxCores].value = quality_lb

-----------------------------------------------------------------------------
(* InitialAssignmentHeuristic: get_b_start of solver.rs, and round_to_sum *)

\* the estimator is not applied
NoEstimator ==
    /\ mean_quality = 0 /\ std_quality = 0 /\ quality_lb = 0
    /\ sample_size = 0 /\ e_min = <<>>

RECURSIVE SeqSum(_)
SeqSum(q) == IF q = <<>> THEN 0 ELSE Head(q) + SeqSum(Tail(q))

\* the cores a vector of replica counts uses: the sum of shares[a] * threads[a]
RECURSIVE WeightedSum(_, _)
WeightedSum(shares, threads) ==
    IF shares = <<>> THEN 0
    ELSE Head(shares) * Head(threads) + WeightedSum(Tail(shares), Tail(threads))

\* f64::round of n / d >= 0: to the nearest integer, halves away from zero
RoundHalfAway(n, d) == (2 * n + d) \div (2 * d)

\* get_b_start: ((count / m * num_cores).floor() / num_threads).round()
get_b_start(count, threads, num_instances, cores) ==
    [a \in 1..Len(count) |->
        RoundHalfAway((count[a] * cores) \div num_instances, threads[a])]

\* a fraction is a pair <<numerator, denominator>>
\* step 1: fractional_share[a] = (count[a] / num_instances) * (num_cores / thread_count[a])
fractional_share(count, threads, num_instances, cores) ==
    [a \in 1..Len(count) |-> <<count[a] * cores, num_instances * threads[a]>>]

\* step 2: the integer floor parts ...
floor_share(fr) == [a \in 1..Len(fr) |-> fr[a][1] \div fr[a][2]]

\* ... and the fractional remainders (losses)
loss_share(fr) == [a \in 1..Len(fr) |-> <<fr[a][1] % fr[a][2], fr[a][2]>>]

LossLess(x, y) == x[1] * y[2] < y[1] * x[2]

LossEqual(x, y) == x[1] * y[2] = y[1] * x[2]

\* a variant that lets a step exceed the remaining budget by one
fitting_nearly(stp, rem) == {a \in DOMAIN stp : stp[a] <= rem + 1}

\* a variant that only asks for budget to be left, not for the step to fit it
fitting_any(stp, rem) == IF rem > 0 THEN DOMAIN stp ELSE {}

\* step 4: the algorithms whose thread count does not exceed the remaining budget
fitting(stp, rem) == {a \in DOMAIN stp : stp[a] <= rem}

\* a variant that picks the last one among equals
largest_loss_last(ls, candidates) ==
    CHOOSE a \in candidates :
        \A b \in candidates : LossLess(ls[b], ls[a]) \/ (LossEqual(ls[b], ls[a]) /\ b <= a)

\* a variant that picks the smallest loss
largest_loss_inverted(ls, candidates) ==
    CHOOSE a \in candidates :
        \A b \in candidates : LossLess(ls[a], ls[b]) \/ (LossEqual(ls[a], ls[b]) /\ a <= b)

\* step 4: the candidate with the largest loss, the first one among equals
largest_loss(ls, candidates) ==
    CHOOSE a \in candidates :
        \A b \in candidates : LossLess(ls[b], ls[a]) \/ (LossEqual(ls[b], ls[a]) /\ a <= b)

\* the arguments of the test test_round_to_sum: [2.4, 1.6, 0.8, 1.9, 1.6], [1, 2, 4, 8, 1], 20
FixtureFractions == <<<<24, 10>>, <<16, 10>>, <<8, 10>>, <<19, 10>>, <<16, 10>>>>

FixtureSteps == <<1, 2, 4, 8, 1>>

FixtureSum == 20

\* count vectors of n algorithms over num_instances instances
CountVectors(n, num_instances) ==
    {c \in [1..n -> 0..num_instances] : SeqSum(c) <= num_instances}

\* solve is called with the counts of best_per_instance_count, the algorithms'
\* thread counts, the number of instances and the core budget
InitHeuristic ==
    /\ m \in 1..MaxInstances
    /\ num_cores \in 1..MaxCores
    /\ \E n \in 1..MaxAlgorithms :
          /\ counts \in CountVectors(n, m)
          /\ num_threads \in [1..n -> 1..MaxThreads]
    /\ b_start = <<>>
    /\ fractions = <<>> /\ steps = <<>> /\ sum = 0
    /\ rounded = <<>> /\ losses = <<>> /\ remaining = 0
    /\ round_pc = "input"

\* round_to_sum is called on the arguments of its test
InitFixture ==
    /\ counts = <<>> /\ num_threads = <<>> /\ m = 0 /\ num_cores = 0
    /\ b_start = <<>>
    /\ fractions = FixtureFractions /\ steps = FixtureSteps /\ sum = FixtureSum
    /\ rounded = <<>> /\ losses = <<>> /\ remaining = 0
    /\ round_pc = "call"

InitRound == NoEstimator /\ NoData /\ NoFilter /\ NoHelpers /\ (InitHeuristic \/ InitFixture)

\* solve: the warm start of b from get_b_start
GetBStart ==
    /\ round_pc = "input"
    /\ b_start = <<>>
    /\ b_start' = get_b_start(counts, num_threads, m, num_cores)
    /\ UNCHANGED <<emin_vars, heuristic_inputs, round_vars, data_vars, filter_vars, helper_vars>>

\* the heuristic of section 4.5: round_to_sum is called on the fractional shares
FractionalShares ==
    /\ round_pc = "input"
    /\ b_start # <<>>
    /\ fractions' = fractional_share(counts, num_threads, m, num_cores)
    /\ steps' = num_threads
    /\ sum' = num_cores
    /\ round_pc' = "call"
    /\ UNCHANGED <<emin_vars, data_vars, filter_vars, helper_vars, heuristic_inputs, b_start, rounded, losses, remaining>>

\* round_to_sum, steps 2 and 3: floors, losses and the budget that remains
RoundStart ==
    /\ round_pc = "call"
    /\ rounded' = floor_share(fractions)
    /\ losses' = loss_share(fractions)
    /\ remaining' = sum - WeightedSum(floor_share(fractions), steps)
    /\ round_pc' = "loop"
    /\ UNCHANGED <<emin_vars, data_vars, filter_vars, helper_vars, heuristic_inputs, b_start, fractions, steps, sum>>

\* round_to_sum, step 4: one increment of the greedy loop
RoundIncrement ==
    /\ round_pc = "loop"
    /\ fitting(steps, remaining) # {}
    /\ LET a == largest_loss(losses, fitting(steps, remaining))
       IN /\ rounded' = [rounded EXCEPT ![a] = @ + 1]
          /\ losses' = [losses EXCEPT ![a] = <<0, 1>>]
          /\ remaining' = remaining - steps[a]
    /\ UNCHANGED <<emin_vars, data_vars, filter_vars, helper_vars, heuristic_inputs, b_start, fractions, steps, sum, round_pc>>

\* round_to_sum, step 4: no thread count fits what remains, the loop ends
RoundReturn ==
    /\ round_pc = "loop"
    /\ fitting(steps, remaining) = {}
    /\ round_pc' = "done"
    /\ UNCHANGED <<emin_vars, data_vars, filter_vars, helper_vars, heuristic_inputs, b_start, fractions, steps, sum,
                   rounded, losses, remaining>>

NextRound == GetBStart \/ FractionalShares \/ RoundStart \/ RoundIncrement \/ RoundReturn

SpecRound == InitRound /\ [][NextRound]_vars

\* C1: with at least one algorithm of thread count 1 and counts that sum to
\* num_instances, the shares round_to_sum returns for the fractional shares
\* use the budget exactly: the sum of share[a] * thread_count[a] is num_cores.
C1_BudgetExact ==
    (/\ round_pc = "done"
     /\ counts # <<>>
     /\ SeqSum(counts) = m
     /\ \E a \in DOMAIN num_threads : num_threads[a] = 1)
        => WeightedSum(rounded, num_threads) = num_cores

\* a finished call in which a multi-threaded algorithm holds a share and the
\* greedy loop had to hand out increments
C1_Witness ==
    /\ round_pc = "done"
    /\ counts # <<>>
    /\ SeqSum(counts) = m
    /\ \E a \in DOMAIN num_threads : num_threads[a] = 1
    /\ \E a \in DOMAIN num_threads : num_threads[a] > 1 /\ rounded[a] >= 1
    /\ rounded # floor_share(fractions)
    /\ WeightedSum(rounded, num_threads) = num_cores

\* C2: the replica counts get_b_start computes from best_per_instance_count
\* never exceed the budget: the sum of share[a] * thread_count[a] is <= num_cores.
C2_WithinBudget ==
    b_start # <<>> => WeightedSum(b_start, num_threads) <= num_cores

\* the result of test_round_to_sum
FixtureResult == <<2, 2, 1, 1, 2>>

\* one increment of the greedy loop, as C3 describes it
C3_GreedyIncrement ==
    rounded' # rounded =>
        \E a \in DOMAIN rounded :
            /\ rounded' = [rounded EXCEPT ![a] = @ + 1]
            /\ steps[a] <= remaining
            /\ \A b \in DOMAIN rounded :
                  steps[b] <= remaining => ~LossLess(losses[a], losses[b])
            /\ remaining' = remaining - steps[a]

\* C3: round_to_sum starts from the floor of every fraction with remaining =
\* sum - the sum of floor[a] * steps[a], and every increment goes to an
\* algorithm of largest loss among those whose step fits the remaining budget,
\* which drops by that step; on the arguments of the test it returns
\* [2, 2, 1, 1, 2], the entry of loss 0.9 and step 8 being skipped.
C3_RoundToSum ==
    /\ [](round_pc = "call" => rounded = <<>>)
    /\ [][round_pc = "call" =>
            /\ rounded' = [a \in DOMAIN fractions |-> fractions[a][1] \div fractions[a][2]]
            /\ remaining' = sum - WeightedSum(rounded', steps)]_vars
    /\ [][round_pc = "loop" => C3_GreedyIncrement]_vars
    /\ []((round_pc = "done" /\ fractions = FixtureFractions) => rounded = FixtureResult)
    /\ []((round_pc = "done") => \A a \in DOMAIN steps : steps[a] > remaining)

\* the call of the test has returned; the entry of step 8 kept its floor
C3_Witness ==
    /\ round_pc = "done"
    /\ fractions = FixtureFractions
    /\ rounded = FixtureResult
    /\ rounded[4] = 1
    /\ remaining = 0

-----------------------------------------------------------------------------
(* ExpectedQualityTensorBuilder: Data::new of csv_parser.rs *)

\* a null of a column
Null == NegInf - 1

\* the qualities of the run records
Qualities == {2000, 5000}

\* a quality below every quality of the run records
LowerQuality == 1000

\* A run record that passed the filters of preprocess_df.  instance and
\* algorithm are the ranks of the record's instance key (instance, k,
\* feasibility_threshold) and algorithm key (algorithm, num_threads) in
\* ascending order.
RunRecords == [instance : 1..DataInstances, algorithm : 1..DataAlgorithms, quality : Qualities]

KeyLeq(r1, r2) ==
    \/ r1.instance < r2.instance
    \/ r1.instance = r2.instance /\ r1.algorithm <= r2.algorithm

\* preprocess_df ends with a sort by the instance fields, then the algorithm fields
preprocess_df ==
    {d \in UNION {[1..n -> RunRecords] : n \in 1..MaxRows} :
        \A n \in 1..(Len(d) - 1) : KeyLeq(d[n], d[n + 1])}

\* unique_stable(None, UniqueKeepStrategy::First): the distinct values of a
\* column, in the order of their first occurrence
RECURSIVE unique_stable(_)
unique_stable(column) ==
    IF column = <<>> THEN <<>>
    ELSE LET front == unique_stable(SubSeq(column, 1, Len(column) - 1))
             last == column[Len(column)]
         IN IF \E n \in 1..Len(front) : front[n] = last THEN front ELSE Append(front, last)

InstanceColumn(d) == [n \in 1..Len(d) |-> d[n].instance]

AlgorithmColumn(d) == [n \in 1..Len(d) |-> d[n].algorithm]

extract_instance_columns(d) == unique_stable(InstanceColumn(d))

extract_algorithm_columns(d) == unique_stable(AlgorithmColumn(d))

SeqMin(q) == CHOOSE x \in {q[n] : n \in 1..Len(q)} : \A n \in 1..Len(q) : x <= q[n]

\* the qualities of the rows of one instance, in the order of the rows
InstanceQualities(d, i) ==
    LET OfInstance(r) == r.instance = i
        rows == SelectSeq(d, OfInstance)
    IN [n \in 1..Len(rows) |-> rows[n].quality]

\* best_per_instance: group by the instance fields, the minimum of the target
\* field; as a table from the instance to best_quality
best_per_instance(d) ==
    [i \in {d[n].instance : n \in 1..Len(d)} |-> SeqMin(InstanceQualities(d, i))]

\* read_quality_lb: the file holds one quality_lb per instance of the data.
\* It is written by the quality_lower_bound binary as the best_per_instance of
\* the files it is given: these files, or files with more runs, whose best
\* qualities are lower.
read_quality_lb(d) ==
    {best_per_instance(d), [i \in {d[n].instance : n \in 1..Len(d)} |-> LowerQuality]}

\* the groups of groupby_stable([algorithm_fields, instance_fields]): keys
\* <<algorithm, instance>> in the order of their first rows
GroupKeys(d) == unique_stable([n \in 1..Len(d) |-> <<d[n].algorithm, d[n].instance>>])

BelowMax(q) == q < F64_MAX

\* col("quality").filter(col("quality").lt(lit(f64::MAX))) of one group
GroupQualities(d, key) ==
    LET InGroup(r) == r.algorithm = key[1] /\ r.instance = key[2]
        rows == SelectSeq(d, InGroup)
    IN SelectSeq([n \in 1..Len(rows) |-> rows[n].quality], BelowMax)

fill_null(x, value) == IF x = Null THEN value ELSE x

\* mean(): null for no value
agg_mean(qs) == IF qs = <<>> THEN Null ELSE SeqSum(qs) \div Len(qs)

SumOfSquares(qs) == SeqSum([n \in 1..Len(qs) |-> qs[n] * qs[n]])

\* std(1): the sample standard deviation, with n - 1 in the denominator.  For
\* a single value it is not defined: the library gives a null or 0.0,
\* depending on its version (std_of_one).
agg_std(qs, std_of_one) ==
    IF qs = <<>> THEN Null
    ELSE IF Len(qs) = 1 THEN std_of_one
    ELSE ISqrt((Len(qs) * SumOfSquares(qs) - SeqSum(qs) * SeqSum(qs))
                   \div (Len(qs) * (Len(qs) - 1)))

\* a `let` of the code: Op applied to the value of an expression, which is
\* computed once
Let(value, Op(_)) == CHOOSE result \in {Op(v) : v \in {value}} : TRUE

\* stats, agg: mean_quality and std_quality of every group, nulls filled with
\* f64::MAX
GroupStats(d, groups, std_of_one) ==
    [g \in 1..Len(groups) |->
        [mean_quality |-> fill_null(agg_mean(GroupQualities(d, groups[g])), F64_MAX),
         std_quality |-> fill_null(agg_std(GroupQualities(d, groups[g]), std_of_one), F64_MAX)]]

\* stats, cross_join(possible_repeats) and apply: the estimator on every pair
\* of a group and a sample size in 1..=sample_size
EstimatedRows(groups, group_stats, cores, lb) ==
    [n \in 1..(Len(groups) * cores) |->
        LET g == (n - 1) \div cores + 1
            s == ((n - 1) % cores) + 1
            outcome == expected_normdist_min(group_stats[g].mean_quality,
                                             group_stats[g].std_quality, s, lb[groups[g][2]])
        IN [instance |-> groups[g][2], algorithm |-> groups[g][1], sample_size |-> s,
            e_min |-> outcome.value, panicked |-> outcome.panicked]]

\* stats, join(quality_lb, JoinType::Inner): the groups of the instances with
\* a lower bound, in the order of the groups
JoinedGroups(d, lb) == SelectSeq(GroupKeys(d), LAMBDA key : key[2] \in DOMAIN lb)

StatsOfGroups(d, groups, cores, lb, std_of_one) ==
    Let(GroupStats(d, groups, std_of_one), LAMBDA group_stats :
        EstimatedRows(groups, group_stats, cores, lb))

\* stats: mean and std per group, inner join with the lower bounds, cross join
\* with 1..=sample_size, the estimator per row
stats_rows(d, cores, lb, std_of_one) ==
    Let(JoinedGroups(d, lb), LAMBDA groups : StatsOfGroups(d, groups, cores, lb, std_of_one))

\* the columns stats selects
StatsColumns(rows) ==
    [n \in 1..Len(rows) |->
        [instance |-> rows[n].instance, algorithm |-> rows[n].algorithm,
         sample_size |-> rows[n].sample_size, e_min |-> rows[n].e_min]]

SameTriple(r1, r2) ==
    /\ r1.instance = r2.instance
    /\ r1.algorithm = r2.algorithm
    /\ r1.sample_size = r2.sample_size

HasTriple(table, r) == \E n \in 1..Len(table) : SameTriple(table[n], r)

\* the e_min of the row of `table` with the key of r, null when there is none
EminOf(table, r) ==
    IF HasTriple(table, r)
    THEN table[CHOOSE n \in 1..Len(table) : SameTriple(table[n], r)].e_min
    ELSE Null

\* the rows of `table` with the column e_min of `from`, joined on the three
\* key columns: null where `from` has no row of the key
WithEmin(table, from) ==
    [n \in 1..Len(table) |->
        [instance |-> table[n].instance, algorithm |-> table[n].algorithm,
         sample_size |-> table[n].sample_size, e_min |-> EminOf(from, table[n])]]

\* a variant that matches no key: every row of the right table is added
outer_join_unmatched(left, right, probe_left) ==
    IF probe_left
    THEN left \o WithEmin(right, <<>>)
    ELSE WithEmin(right, <<>>) \o left

\* DataFrame::outer_join on the three key columns; the right table has no
\* e_min column.  The library probes one of the tables with a hash table of
\* the other: the rows of the probed table come first, in their order, then
\* the unmatched rows of the other table.  Which table is probed is the
\* library's choice (probe_left).
outer_join(left, right, probe_left) ==
    IF probe_left
    THEN left \o SelectSeq(WithEmin(right, left), LAMBDA r : ~HasTriple(left, r))
    ELSE WithEmin(right, left) \o SelectSeq(left, LAMBDA r : ~HasTriple(right, r))

\* instance_series.cross_join(algorithm_series).cross_join(possible_repeats)
CrossJoin(instance_series, algorithm_series, cores) ==
    [n \in 1..(Len(instance_series) * Len(algorithm_series) * cores) |->
        [instance |-> instance_series[(n - 1) \div (Len(algorithm_series) * cores) + 1],
         algorithm |-> algorithm_series[(((n - 1) \div cores) % Len(algorithm_series)) + 1],
         sample_size |-> ((n - 1) % cores) + 1]]

\* the cartesian product of cleanup_missing_rows:
\* instance_series x algorithm_series x 1..=k
full_df(d, cores) ==
    Let(unique_stable(InstanceColumn(d)), LAMBDA instance_series :
        Let(unique_stable(AlgorithmColumn(d)), LAMBDA algorithm_series :
            CrossJoin(instance_series, algorithm_series, cores)))

\* fill_null(FillNullStrategy::MaxBound)
FillMaxBound(table) ==
    [n \in 1..Len(table) |-> [table[n] EXCEPT !.e_min = fill_null(@, F64_MAX)]]

\* a variant without fill_null(FillNullStrategy::MaxBound)
cleanup_missing_rows_unfilled(d, cores, probe_left) ==
    Let(full_df(d, cores), LAMBDA product : outer_join(d, product, probe_left))

\* cleanup_missing_rows: outer join with the product, nulls filled with f64::MAX
cleanup_missing_rows(d, cores, probe_left) ==
    Let(Let(full_df(d, cores), LAMBDA product : outer_join(d, product, probe_left)),
        FillMaxBound)

\* Array3::from_shape_vec((num_instances, num_algorithms, k), column e_min)
from_shape_vec(ni, na, cores, column) ==
    [i \in 1..ni |-> [a \in 1..na |-> [s \in 1..cores |->
        column[((i - 1) * na + (a - 1)) * cores + s]]]]

\* the estimator and the heuristic are not run
NoSolver == NoEstimator /\ NoHeuristic

InitData ==
    /\ df \in preprocess_df
    /\ core_budget \in 1..DataCores
    /\ quality_lb_df = <<>>
    /\ instances = <<>> /\ algorithms = <<>> /\ stats = <<>>
    /\ stats_df = <<>> /\ clean_df = <<>>
    /\ data_pc = "new"
    /\ NoSolver
    /\ NoFilter
    /\ NoHelpers

\* Data::new: instances and algorithms
ExtractColumns ==
    /\ data_pc = "new"
    /\ instances' = extract_instance_columns(df)
    /\ algorithms' = extract_algorithm_columns(df)
    /\ data_pc' = "stats"
    /\ UNCHANGED <<df, core_budget, quality_lb_df, stats, stats_df, clean_df>>
    /\ UNCHANGED <<emin_vars, heuristic_inputs, b_start, round_vars, filter_vars, helper_vars>>

\* Data::new: stats(...); a failed assertion of the estimator ends the program
Stats ==
    /\ data_pc = "stats"
    /\ \E lb \in read_quality_lb(df), std_of_one \in {Null, 0} :
          \E rows \in {stats_rows(df, core_budget, lb, std_of_one)} :
              /\ quality_lb_df' = lb
              /\ IF \E n \in 1..Len(rows) : rows[n].panicked
                 THEN stats_df' = <<>> /\ data_pc' = "panicked"
                 ELSE stats_df' = StatsColumns(rows) /\ data_pc' = "cleanup"
    /\ UNCHANGED <<df, core_budget, instances, algorithms, stats, clean_df>>
    /\ UNCHANGED <<emin_vars, heuristic_inputs, b_start, round_vars, filter_vars, helper_vars>>

\* Data::new: cleanup_missing_rows(stats_df, k, ...)
Cleanup ==
    /\ data_pc = "cleanup"
    /\ \E probe_left \in BOOLEAN :
          clean_df' = cleanup_missing_rows(stats_df, core_budget, probe_left)
    /\ data_pc' = "reshape"
    /\ UNCHANGED <<df, core_budget, quality_lb_df, instances, algorithms, stats, stats_df>>
    /\ UNCHANGED <<emin_vars, heuristic_inputs, b_start, round_vars, filter_vars, helper_vars>>

\* Data::new: the tensor, from the e_min column in the order of the rows of
\* clean_df; a column of another length than the shape ends the program
Reshape ==
    /\ data_pc = "reshape"
    /\ IF Len(clean_df) = Len(instances) * Len(algorithms) * core_budget
       THEN /\ stats' = from_shape_vec(Len(instances), Len(algorithms), core_budget,
                                       [n \in 1..Len(clean_df) |-> clean_df[n].e_min])
            /\ data_pc' = "done"
       ELSE /\ stats' = <<>>
            /\ data_pc' = "panicked"
    /\ UNCHANGED <<df, core_budget, quality_lb_df, instances, algorithms, stats_df, clean_df>>
    /\ UNCHANGED <<emin_vars, heuristic_inputs, b_start, round_vars, filter_vars, helper_vars>>

NextData == ExtractColumns \/ Stats \/ Cleanup \/ Reshape

SpecData == InitData /\ [][NextData]_vars

-----------------------------------------------------------------------------
(* Claims about Data::new, checked under SpecData *)

Cleaned == data_pc \in {"reshape", "done"}

TripleOf(i, a, s) == [instance |-> i, algorithm |-> a, sample_size |-> s]

RowsOf(table, i, a, s) == {n \in 1..Len(table) : SameTriple(table[n], TripleOf(i, a, s))}

TripleLess(r1, r2) ==
    \/ r1.instance < r2.instance
    \/ r1.instance = r2.instance /\ r1.algorithm < r2.algorithm
    \/ r1.instance = r2.instance /\ r1.algorithm = r2.algorithm /\ r1.sample_size < r2.sample_size

\* C5: in the tensor of Data::new, stats[i][a][s-1] is the e_min of the triple
\* (instances[i], algorithms[a], s), or f64::MAX when the triple has no data;
\* the rows are in ascending (instance, algorithm, sample size) order when
\* they are reshaped, also when the completeness pass added rows.
C5_TensorAligned ==
    data_pc = "done" =>
        /\ \A i \in 1..Len(instances), a \in 1..Len(algorithms), s \in 1..core_budget :
              stats[i][a][s] =
                  fill_null(EminOf(stats_df, TripleOf(instances[i], algorithms[a], s)), F64_MAX)
        /\ \A n \in 1..(Len(clean_df) - 1) : TripleLess(clean_df[n], clean_df[n + 1])

\* C9: a group with a single valid run gets e_min = max(mean, quality_lb) for
\* every sample size in 1..=num_cores, the mean being the quality of the run;
\* the pipeline does not fail on it.
C9_SingleRunKeepsMean ==
    /\ data_pc # "panicked"
    /\ data_pc \in {"cleanup", "reshape", "done"} =>
          \A n \in 1..Len(stats_df) :
              LET qs == GroupQualities(df, <<stats_df[n].algorithm, stats_df[n].instance>>)
              IN Len(qs) = 1 =>
                    stats_df[n].e_min = FMax(qs[1], quality_lb_df[stats_df[n].instance])

-----------------------------------------------------------------------------
(* AlgorithmSlowdownFilter: filter_algorithms_by_slowdown of csv_parser/utils.rs *)

\* the running times and the slowdown ratios of the model are powers of two
Times == {500, 1000, 2000}

\* std::u32::MAX as f64: in the fixed point of the model, a finite value above
\* every time and below f64::MAX
U32_MAX == 500000

\* the slowdown ratios of a configuration file or of the command line: 0.0,
\* powers of two, and f64::MAX
ConfiguredRatios == {0, 500, 1000, 2000, F64_MAX}

\* Config::from_cli: a slowdown ratio of 0.0 is replaced by u32::MAX
from_cli(ratio) == IF ratio = 0 THEN U32_MAX ELSE ratio

SlowdownRatios == {from_cli(ratio) : ratio \in ConfiguredRatios}

\* f64::ln of a power of two, in units of ln 2
LnOfPower(v) ==
    CASE v = 250 -> 0 - 2
      [] v = 500 -> 0 - 1
      [] v = 1000 -> 0
      [] v = 2000 -> 1
      [] v = 4000 -> 2
      [] v = U32_MAX -> 32
      [] v = F64_MAX -> 1024

TimedRecords ==
    [instance : 1..DataInstances, algorithm : 1..DataAlgorithms,
     quality : Qualities, time : Times]

\* the data frames given to the filter: run records sorted as by preprocess_df
TimedFrames ==
    {d \in UNION {[1..n -> TimedRecords] : n \in 1..MaxFilterRows} :
        \A n \in 1..(Len(d) - 1) : KeyLeq(d[n], d[n + 1])}

\* the data frame of test_algorithm_slowdown_filtering: graph1 and graph2,
\* algo1 to algo3
SlowdownFixture ==
    << [instance |-> 1, algorithm |-> 1, quality |-> 1000, time |-> 2000],
       [instance |-> 1, algorithm |-> 2, quality |-> 2000, time |-> 2000],
       [instance |-> 1, algorithm |-> 3, quality |-> 2000, time |-> 1000],
       [instance |-> 2, algorithm |-> 1, quality |-> 2000, time |-> 2000],
       [instance |-> 2, algorithm |-> 2, quality |-> 1000, time |-> 2000],
       [instance |-> 2, algorithm |-> 3, quality |-> 2000, time |-> 1000] >>

\* sort_by(vec![col("quality")], vec![false]) within a group: the rows in
\* ascending order of quality; the argsort of the library is a stable sort, so
\* rows of equal quality keep their order
RECURSIVE InsertByQuality(_, _)
InsertByQuality(sorted, row) ==
    IF sorted = <<>> THEN <<row>>
    ELSE IF Head(sorted).quality <= row.quality
         THEN <<Head(sorted)>> \o InsertByQuality(Tail(sorted), row)
         ELSE <<row>> \o sorted

RECURSIVE sort_by(_)
sort_by(rows) ==
    IF rows = <<>> THEN <<>>
    ELSE InsertByQuality(sort_by(SubSeq(rows, 1, Len(rows) - 1)), rows[Len(rows)])

\* groupby_stable(instance_fields).agg([col("*").sort_by(quality).first()]):
\* per instance, in the order of the first rows of the instances, the first
\* row of the sorted group
first_by_quality(d) ==
    LET ins == unique_stable(InstanceColumn(d))
    IN [i \in 1..Len(ins) |-> Head(sort_by(SelectSeq(d, LAMBDA r : r.instance = ins[i])))]

\* a variant that takes the time of the fastest run of the instance
best_per_instance_time_fastest(d) ==
    LET ins == unique_stable(InstanceColumn(d))
    IN [i \in 1..Len(ins) |->
          CHOOSE t \in {d[n].time : n \in 1..Len(d)} :
              /\ \E n \in 1..Len(d) : d[n].instance = ins[i] /\ d[n].time = t
              /\ \A n \in 1..Len(d) : d[n].instance = ins[i] => t <= d[n].time]

\* best_per_instance_time(df, instance_fields, "quality"): the column time of
\* the first rows by quality, renamed best_time
best_per_instance_time(d) ==
    LET best == first_by_quality(d)
    IN [i \in 1..Len(best) |-> best[i].time]

\* the closure gmean: sum(ln v) / len, as the fraction <<sum, len>> of ln 2
gmean(column) == <<SeqSum([n \in 1..Len(column) |-> LnOfPower(column[n])]), Len(column)>>

\* the column time of the group of one algorithm
AlgorithmTimes(d, a) ==
    LET OfAlgorithm(r) == r.algorithm = a
        rows == SelectSeq(d, OfAlgorithm)
    IN [n \in 1..Len(rows) |-> rows[n].time]

\* a variant that compares the geometric means: exp(gmean) < ratio * exp(gmean_best)
gmean_lt_geometric(algorithm_gmean, ratio, gmean_best_per_instance) ==
    algorithm_gmean[1] * gmean_best_per_instance[2]
        < LnOfPower(ratio) * algorithm_gmean[2] * gmean_best_per_instance[2]
              + gmean_best_per_instance[1] * algorithm_gmean[2]

\* col("gmean").lt(lit(slowdown_ratio * gmean_best_per_instance)); the
\* fractions are compared by cross multiplication
gmean_lt(algorithm_gmean, ratio, gmean_best_per_instance) ==
    algorithm_gmean[1] * gmean_best_per_instance[2] * Scale
        < ratio * gmean_best_per_instance[1] * algorithm_gmean[2]

\* filter_algorithms_by_slowdown: the inner join of df with the algorithms
\* that pass the filter keeps the rows of these algorithms
filter_algorithms_by_slowdown(d, ratio, best_time) ==
    LET Passes(r) == gmean_lt(gmean(AlgorithmTimes(d, r.algorithm)), ratio, gmean(best_time))
    IN SelectSeq(d, Passes)

InitFilter ==
    /\ filter_df \in TimedFrames \union {SlowdownFixture}
    /\ slowdown_ratio \in SlowdownRatios
    /\ best_time_df = <<>>
    /\ filtered_df = <<>>
    /\ filter_pc = "called"
    /\ exit_status = NoExit
    /\ NoSolver
    /\ NoData
    /\ NoHelpers

FilterAlgorithms ==
    /\ filter_pc = "called"
    /\ best_time_df' = best_per_instance_time(filter_df)
    /\ filtered_df' = filter_algorithms_by_slowdown(filter_df, slowdown_ratio,
                                                  best_per_instance_time(filter_df))
    /\ filter_pc' = "returned"
    /\ UNCHANGED <<filter_df, slowdown_ratio, exit_status>>
    /\ UNCHANGED <<emin_vars, heuristic_inputs, b_start, round_vars, data_vars, helper_vars>>

\* the exit status of a process whose main returns Ok(())
ExitSuccess == 0

\* the exit status of a process whose main returns an Err
ExitFailure == 1

\* Data::new on the filtered data frame: a configuration error when no
\* algorithm is left
data_new(filtered) == IF filtered = <<>> THEN "Err" ELSE "Ok"

\* main: `Data::new(&config)?` returns the error of Data::new from main
DataNewFails ==
    /\ filter_pc = "returned"
    /\ data_new(filtered_df) = "Err"
    /\ filter_pc' = "exited"
    /\ exit_status' = ExitFailure
    /\ UNCHANGED <<filter_df, slowdown_ratio, best_time_df, filtered_df>>
    /\ UNCHANGED <<emin_vars, heuristic_inputs, b_start, round_vars, data_vars, helper_vars>>

\* main: `solver::solve(&data, k, timeout)?` on the data of Data::new; on a
\* failure of the solver main returns its error, else it writes the
\* portfolios and returns Ok(())
SolveAndExit ==
    /\ filter_pc = "returned"
    /\ data_new(filtered_df) = "Ok"
    /\ filter_pc' = "exited"
    /\ \E solved \in BOOLEAN : exit_status' = IF solved THEN ExitSuccess ELSE ExitFailure
    /\ UNCHANGED <<filter_df, slowdown_ratio, best_time_df, filtered_df>>
    /\ UNCHANGED <<emin_vars, heuristic_inputs, b_start, round_vars, data_vars, helper_vars>>

NextFilter == FilterAlgorithms \/ DataNewFails \/ SolveAndExit

SpecFilter == InitFilter /\ [][NextFilter]_vars

\* gmean(values) = exp(mean(ln v)) of the values of algorithm a is below
\* slowdown_ratio * gmean(best_time): for powers of two, the base-2 logarithms
\* compare as  mean(log2 time) < log2 ratio + mean(log2 best_time)
GeometricMeanBelow(a) ==
    LET ga == gmean(AlgorithmTimes(filter_df, a))
        gb == gmean(best_time_df)
    IN ga[1] * gb[2] < LnOfPower(slowdown_ratio) * ga[2] * gb[2] + gb[1] * ga[2]

\* C10: filter_algorithms_by_slowdown keeps exactly the run records of the
\* algorithms whose geometric mean of the times is below slowdown_ratio times
\* the geometric mean of best_time: a record of such an algorithm is kept
\* unchanged, a record of another algorithm is dropped.
C10_KeepsByGeometricMean ==
    filter_pc = "returned" =>
        /\ \A n \in 1..Len(filter_df) :
              (\E c \in 1..Len(filtered_df) : filtered_df[c] = filter_df[n])
                  <=> GeometricMeanBelow(filter_df[n].algorithm)
        /\ \A c \in 1..Len(filtered_df) :
              \E n \in 1..Len(filter_df) : filtered_df[c] = filter_df[n]

\* C11: on the data frame of the test with slowdown_ratio = 0.5 (times of
\* algo1 and algo2 are 2, of algo3 are 1, the best run of each instance has
\* time 2) the filter keeps exactly the two rows of algo3.
C11_FixtureKeepsAlgo3 ==
    (filter_pc = "returned" /\ filter_df = SlowdownFixture /\ slowdown_ratio = 500) =>
        filtered_df = <<SlowdownFixture[3], SlowdownFixture[6]>>

\* C11 (witness): the filter has returned on the data frame of the test, the
\* best times being 2 and 2
C11_Witness ==
    /\ filter_pc = "returned"
    /\ filter_df = SlowdownFixture
    /\ slowdown_ratio = 500
    /\ best_time_df = <<2000, 2000>>
    /\ Len(filtered_df) = 2

\* C12: when the slowdown filter leaves no algorithm, the run ends with an
\* exit status of its own: not success, and not the status of a generic
\* computation failure; the solver is not called on an empty algorithm set.
C12_EmptyFilterIsConfigError ==
    (filter_pc = "exited" /\ filtered_df = <<>>) =>
        exit_status \notin {ExitSuccess, ExitFailure}

\* C13: with the disabling sentinel as slowdown ratio (f64::MAX, or the
\* u32::MAX that from_cli puts for a configured 0.0) the filter returns every
\* run record, for every input with positive times, also when all times are
\* below one second.
C13_SentinelKeepsAll ==
    (filter_pc = "returned" /\ slowdown_ratio \in {F64_MAX, from_cli(0)}) =>
        filtered_df = filter_df

-----------------------------------------------------------------------------
(* best_per_instance_count of csv_parser/utils.rs *)

\* the data frames given to best_per_instance_count: run records in any order
CountFrames == UNION {[1..n -> RunRecords] : n \in 1..MaxRows}

\* groupby_stable(algorithm_fields).agg([count()]) of the best rows: one row
\* per algorithm of a best row, in the order of the first best rows, with the
\* number of best rows of the algorithm
count_best(best) ==
    LET winners == unique_stable(AlgorithmColumn(best))
    IN [w \in 1..Len(winners) |->
          [algorithm |-> winners[w],
           count |-> Cardinality({i \in 1..Len(best) : best[i].algorithm = winners[w]})]]

\* the count of the row of `table` with the algorithm, null when there is none
CountOf(table, algorithm) ==
    IF \E n \in 1..Len(table) : table[n].algorithm = algorithm
    THEN table[CHOOSE n \in 1..Len(table) : table[n].algorithm = algorithm].count
    ELSE Null

\* outer_join(&algorithm_series, algorithm_fields, algorithm_fields): the rows
\* of the probed table first, then the unmatched rows of the other table;
\* every algorithm of counted is in algorithm_series
outer_join_algorithms(counted, algorithm_series, probe_left) ==
    IF probe_left
    THEN counted \o
         SelectSeq([n \in 1..Len(algorithm_series) |->
                       [algorithm |-> algorithm_series[n], count |-> Null]],
                   LAMBDA r : CountOf(counted, r.algorithm) = Null)
    ELSE [n \in 1..Len(algorithm_series) |->
             [algorithm |-> algorithm_series[n], count |-> CountOf(counted, algorithm_series[n])]]

\* fill_null(FillNullStrategy::Zero)
FillZero(table) == [n \in 1..Len(table) |-> [table[n] EXCEPT !.count = fill_null(@, 0)]]

\* a variant of probes_left: the left table is probed
probes_left_always(left, right) == Len(left) >= 0

\* the table that outer_join probes.  The join builds its hash table on the
\* shorter relation and probes it with the rows of the longer one, the right
\* one when the lengths are equal; the left table, the counts of the winners,
\* is never longer than the algorithms of the data frame.  (The claims about
\* cleanup_missing_rows hold for either table, so the choice is open there.)
probes_left(left, right) == Len(left) > Len(right)

\* a variant without the outer join with the algorithms of the data frame
best_per_instance_count_of_winners(d, probe_left) ==
    count_best(first_by_quality(d))

\* best_per_instance_count(df, instance_fields, algorithm_fields, "quality")
best_per_instance_count(d, probe_left) ==
    FillZero(outer_join_algorithms(count_best(first_by_quality(d)),
                                   unique_stable(AlgorithmColumn(d)), probe_left))

InitCount ==
    /\ count_df \in CountFrames
    /\ ranking = <<>>
    /\ count_pc = "called"
    /\ NoPrep /\ NoTable /\ NoSampling /\ NoDriver
    /\ NoSolver
    /\ NoData
    /\ NoFilter

BestPerInstanceCount ==
    /\ count_pc = "called"
    /\ ranking' = best_per_instance_count(count_df,
                      probes_left(count_best(first_by_quality(count_df)),
                                  unique_stable(AlgorithmColumn(count_df))))
    /\ count_pc' = "returned"
    /\ UNCHANGED <<count_df, prep_vars, table_vars, sampling_vars, driver_vars>>
    /\ UNCHANGED <<emin_vars, heuristic_inputs, b_start, round_vars, data_vars, filter_vars>>

NextCount == BestPerInstanceCount

SpecCount == InitCount /\ [][NextCount]_vars

\* row n of count_df is the winning run of its instance: no run of the
\* instance has a lower quality, and no earlier run has the same quality
WinningRun(n) ==
    \A c \in 1..Len(count_df) :
        count_df[c].instance = count_df[n].instance =>
            /\ count_df[n].quality <= count_df[c].quality
            /\ c < n => count_df[n].quality < count_df[c].quality

\* the instances whose winning run belongs to algorithm a
InstancesWonBy(a) ==
    {count_df[n].instance : n \in {c \in 1..Len(count_df) : count_df[c].algorithm = a /\ WinningRun(c)}}

\* C14: best_per_instance_count returns exactly one count per distinct
\* algorithm of its data frame: the number of instances whose run of minimum
\* quality belongs to the algorithm, a tie at the minimum going to the first
\* run in input order; an algorithm that wins no instance has the count 0,
\* and the counts sum to the number of distinct instances.
C14_OneCountPerAlgorithm ==
    count_pc = "returned" =>
        /\ \A n \in 1..Len(count_df) :
              Cardinality({c \in 1..Len(ranking) : ranking[c].algorithm = count_df[n].algorithm}) = 1
        /\ \A c \in 1..Len(ranking) :
              /\ \E n \in 1..Len(count_df) : count_df[n].algorithm = ranking[c].algorithm
              /\ ranking[c].count = Cardinality(InstancesWonBy(ranking[c].algorithm))
        /\ SeqSum([c \in 1..Len(ranking) |-> ranking[c].count])
               = Cardinality({count_df[n].instance : n \in 1..Len(count_df)})

\* C14 (witness): the count has returned on a data frame where two
\* algorithms tie at the minimum of an instance, the later algorithm by key
\* coming first, and the other algorithm has the count 0
C14_Witness ==
    /\ count_pc = "returned"
    /\ Len(count_df) >= 2
    /\ count_df[1].instance = count_df[2].instance
    /\ count_df[1].quality = count_df[2].quality
    /\ count_df[1].algorithm > count_df[2].algorithm
    /\ \E c \in 1..Len(ranking) :
          ranking[c].algorithm = count_df[1].algorithm /\ ranking[c].count >= 1
    /\ \E c \in 1..Len(ranking) :
          ranking[c].algorithm = count_df[2].algorithm /\ ranking[c].count = 0

-----------------------------------------------------------------------------
(* preprocess_df and the start of Data::new of csv_parser.rs *)

\* the number of rows of the csv files
MaxRawRows == 2

\* std::f64::EPSILON: in the fixed point of the model, the smallest positive value
EPSILON == 1

RawInstances == {1, 2}

RawAlgorithms == {1, 2}

\* the qualities of the csv files: a negative one, 0.0, EPSILON and 2.0
RawQualities == {0 - 3000, 0, EPSILON, 2000}

\* the columns feasibility_score, failed and timeout of a row: a valid run,
\* an infeasible run, a failed run, a run with a timeout
RawFlags ==
    { [feasibility_score |-> 0, failed |-> "no", timeout |-> "no"],
      [feasibility_score |-> 100, failed |-> "no", timeout |-> "no"],
      [feasibility_score |-> 0, failed |-> "yes", timeout |-> "no"],
      [feasibility_score |-> 0, failed |-> "no", timeout |-> "yes"] }

\* the rows of the csv files
RawRecords ==
    {[instance |-> i, algorithm |-> a, quality |-> q,
      feasibility_score |-> f.feasibility_score, failed |-> f.failed, timeout |-> f.timeout] :
        i \in RawInstances, a \in RawAlgorithms, q \in RawQualities, f \in RawFlags}

\* the rows of all files, in the order of the files
RawFrames == UNION {[1..n -> RawRecords] : n \in 1..MaxRawRows}

Abs(x) == IF x < 0 THEN 0 - x ELSE x

\* a variant that keeps the quality of the file
keep_quality(i) == i

\* the closure applied to the column quality
fix_quality(i) == IF Abs(i) <= EPSILON THEN Scale ELSE i

\* a variant without the three filters
read_df_unfiltered(rows) ==
    [n \in 1..Len(rows) |-> [rows[n] EXCEPT !.quality = fix_quality(@)]]

\* read_df: the quality column is fixed, then the rows are filtered by
\* feasibility_score <= 0.03, failed contains "no", timeout contains "no"
read_df(rows) ==
    SelectSeq([n \in 1..Len(rows) |-> [rows[n] EXCEPT !.quality = fix_quality(@)]],
              LAMBDA r : r.feasibility_score <= 30 /\ r.failed = "no" /\ r.timeout = "no")

KeyLess(r1, r2) ==
    \/ r1.instance < r2.instance
    \/ r1.instance = r2.instance /\ r1.algorithm < r2.algorithm

\* sort_by_exprs(sort_order, ..): the rows in ascending order of the instance
\* fields, then the algorithm fields; rows of equal keys keep their order
RECURSIVE InsertByKey(_, _)
InsertByKey(sorted, row) ==
    IF sorted = <<>> THEN <<row>>
    ELSE IF KeyLess(row, Head(sorted))
         THEN <<row>> \o sorted
         ELSE <<Head(sorted)>> \o InsertByKey(Tail(sorted), row)

RECURSIVE sort_by_exprs(_)
sort_by_exprs(rows) ==
    IF rows = <<>> THEN <<>>
    ELSE InsertByKey(sort_by_exprs(SubSeq(rows, 1, Len(rows) - 1)), rows[Len(rows)])

\* preprocess_df(paths, config): read_df on the files, concat, sort
preprocess(rows) == sort_by_exprs(read_df(rows))

\* column_to_f64_array(best_per_instance(df, instance_fields, "quality"),
\* "best_quality"): groupby_stable gives the instances in the order of their
\* first rows
best_per_instance_array(d) ==
    LET ins == unique_stable(InstanceColumn(d))
    IN [i \in 1..Len(ins) |-> best_per_instance(d)[ins[i]]]

InitPrep ==
    /\ raw_df \in RawFrames
    /\ prep_df = <<>>
    /\ best_per_instance_arr = <<>>
    /\ prep_pc = "read"
    /\ NoCount /\ NoTable /\ NoSampling /\ NoDriver
    /\ NoSolver
    /\ NoData
    /\ NoFilter

\* Data::new: df = preprocess_df(paths, &df_config).collect()
Preprocess ==
    /\ prep_pc = "read"
    /\ prep_df' = preprocess(raw_df)
    /\ prep_pc' = "preprocessed"
    /\ UNCHANGED <<raw_df, best_per_instance_arr, count_vars, table_vars, sampling_vars, driver_vars>>
    /\ UNCHANGED <<emin_vars, heuristic_inputs, b_start, round_vars, data_vars, filter_vars>>

\* Data::new: best_per_instance and
\* assert!(best_per_instance.iter().all(|val| val.abs() >= EPSILON))
BestPerInstance ==
    /\ prep_pc = "preprocessed"
    /\ \E best \in {best_per_instance_array(prep_df)} :
          /\ best_per_instance_arr' = best
          /\ prep_pc' = IF \A i \in 1..Len(best) : Abs(best[i]) >= EPSILON
                        THEN "asserted" ELSE "panicked"
    /\ UNCHANGED <<raw_df, prep_df, count_vars, table_vars, sampling_vars, driver_vars>>
    /\ UNCHANGED <<emin_vars, heuristic_inputs, b_start, round_vars, data_vars, filter_vars>>

NextPrep == Preprocess \/ BestPerInstance

SpecPrep == InitPrep /\ [][NextPrep]_vars

\* row n of the files is a valid run: feasible, not failed, not timed out
ValidRun(n) ==
    /\ raw_df[n].feasibility_score <= 30
    /\ raw_df[n].failed = "no"
    /\ raw_df[n].timeout = "no"

\* the quality of the run record of row n
RunQuality(n) == IF Abs(raw_df[n].quality) <= EPSILON THEN Scale ELSE raw_df[n].quality

ValidInstances == {raw_df[n].instance : n \in {c \in 1..Len(raw_df) : ValidRun(c)}}

\* the i-th instance with a valid run, in ascending order
NthInstance(i) ==
    CHOOSE x \in ValidInstances : Cardinality({y \in ValidInstances : y < x}) = i - 1

\* C15: best_per_instance has one entry per distinct instance, in ascending
\* order of the instances, and entry i is the minimum quality of the valid
\* runs (feasible, not failed, not timed out) of instance i over all
\* algorithms; an invalid run does not contribute, also with a lower quality.
C15_BestOfValidRuns ==
    prep_pc \in {"asserted", "panicked"} =>
        /\ Len(best_per_instance_arr) = Cardinality(ValidInstances)
        /\ \A i \in 1..Len(best_per_instance_arr) :
              /\ \E n \in 1..Len(raw_df) :
                    /\ ValidRun(n) /\ raw_df[n].instance = NthInstance(i)
                    /\ RunQuality(n) = best_per_instance_arr[i]
              /\ \A n \in 1..Len(raw_df) :
                    (ValidRun(n) /\ raw_df[n].instance = NthInstance(i))
                        => best_per_instance_arr[i] <= RunQuality(n)

\* C15 (witness): best_per_instance is computed from files where an instance
\* has a valid run and an invalid run of lower quality
C15_Witness ==
    /\ prep_pc = "asserted"
    /\ Len(best_per_instance_arr) = 1
    /\ \E n, c \in 1..Len(raw_df) :
          /\ raw_df[n].instance = raw_df[c].instance
          /\ ValidRun(n) /\ ~ValidRun(c)
          /\ raw_df[c].quality < raw_df[n].quality
          /\ raw_df[c].quality < 0
          /\ best_per_instance_arr[1] = raw_df[n].quality

\* C16: every entry of best_per_instance has an absolute value of at least
\* EPSILON, so the assertion of Data::new does not fail: preprocess_df
\* replaces a quality of absolute value at most EPSILON by 1.0 and leaves
\* every other quality unchanged.
C16_BestAtLeastEpsilon ==
    /\ prep_pc # "panicked"
    /\ prep_pc = "asserted" => \A i \in 1..Len(best_per_instance_arr) :
                                   Abs(best_per_instance_arr[i]) >= EPSILON
    /\ prep_pc \in {"preprocessed", "asserted"} =>
          \A c \in 1..Len(prep_df) :
              \E n \in 1..Len(raw_df) :
                  /\ ValidRun(n)
                  /\ prep_df[c].instance = raw_df[n].instance
                  /\ prep_df[c].algorithm = raw_df[n].algorithm
                  /\ prep_df[c].quality =
                         IF Abs(raw_df[n].quality) <= EPSILON THEN Scale ELSE raw_df[n].quality

\* C16 (witness): the assertion has passed on files whose only valid runs
\* have the qualities 0.0 and EPSILON, replaced by 1.0
C16_Witness ==
    /\ prep_pc = "asserted"
    /\ Len(raw_df) = 2 /\ Len(prep_df) = 2
    /\ {raw_df[1].quality, raw_df[2].quality} = {0, EPSILON}
    /\ best_per_instance_arr = <<Scale, Scale>>

-----------------------------------------------------------------------------
(* Claims about best_per_instance_time, checked under SpecFilter *)

\* row n of filter_df is the best run of its instance: no run of the instance
\* has a lower quality, and no earlier run has the same quality
BestRun(n) ==
    \A c \in 1..Len(filter_df) :
        filter_df[c].instance = filter_df[n].instance =>
            /\ filter_df[n].quality <= filter_df[c].quality
            /\ c < n => filter_df[n].quality < filter_df[c].quality

\* C17: best_per_instance_time returns for every instance the time of the
\* run of minimum quality among the runs of the instance, not the minimum
\* time; when several runs have the minimum quality, the time of the first of
\* them in input order.
C17_TimeOfBestRun ==
    filter_pc \in {"returned", "exited"} =>
        LET ins == unique_stable(InstanceColumn(filter_df))
        IN /\ Len(best_time_df) = Len(ins)
           /\ \A i \in 1..Len(ins) :
                 \E n \in 1..Len(filter_df) :
                     /\ filter_df[n].instance = ins[i]
                     /\ BestRun(n)
                     /\ best_time_df[i] = filter_df[n].time

\* C17 (witness): two runs of an instance tie at the minimum quality, the
\* first is the slower one, and its time is returned
C17_Witness ==
    /\ filter_pc = "returned"
    /\ Len(filter_df) = 2
    /\ filter_df[1].instance = filter_df[2].instance
    /\ filter_df[1].quality = filter_df[2].quality
    /\ filter_df[2].time < filter_df[1].time
    /\ best_time_df = <<filter_df[1].time>>

-----------------------------------------------------------------------------
(* Claims about the arrays of Data::new, checked under SpecData *)

\* every key of the column is once in the array, and the array is ascending
SortedKeysOf(array, column) ==
    /\ \A n \in 1..Len(column) : Cardinality({c \in 1..Len(array) : array[c] = column[n]}) = 1
    /\ \A c \in 1..Len(array) : \E n \in 1..Len(column) : column[n] = array[c]
    /\ \A c \in 1..(Len(array) - 1) : array[c] < array[c + 1]

\* C18: the array of the instances and the array of the algorithms of Data
\* hold every distinct key exactly once, in ascending order, for every input,
\* also when an algorithm has no valid run on the first instance.
C18_ArraysSortedDistinct ==
    data_pc # "new" =>
        /\ SortedKeysOf(instances, InstanceColumn(df))
        /\ SortedKeysOf(algorithms, AlgorithmColumn(df))

-----------------------------------------------------------------------------
(* cleanup_missing_rows of csv_parser/utils.rs, applied to its own result *)

\* the number of rows of the table given to the first call
MaxTableRows == 2

\* the e_min of a row of the table: 1.0, or f64::MAX
TableRows ==
    [instance : RawInstances, algorithm : RawAlgorithms, sample_size : 1..DataCores,
     e_min : {Scale, F64_MAX}]

\* the tables of e_min: rows in any order, one row per triple at most
Tables ==
    {t \in UNION {[1..n -> TableRows] : n \in 1..MaxTableRows} :
        \A n, c \in 1..Len(t) : SameTriple(t[n], t[c]) => n = c}

InitCleanup ==
    /\ table_k \in 1..DataCores
    /\ table_df \in {t \in Tables : \A n \in 1..Len(t) : t[n].sample_size <= table_k}
    /\ once_df = <<>>
    /\ twice_df = <<>>
    /\ cleanup_pc = "called"
    /\ NoCount /\ NoPrep /\ NoSampling /\ NoDriver
    /\ NoSolver
    /\ NoData
    /\ NoFilter

\* cleanup_missing_rows(df, k, ...)
CleanupOnce ==
    /\ cleanup_pc = "called"
    /\ \E probe_left \in BOOLEAN :
          once_df' = cleanup_missing_rows(table_df, table_k, probe_left)
    /\ cleanup_pc' = "once"
    /\ UNCHANGED <<table_df, table_k, twice_df, count_vars, prep_vars, sampling_vars, driver_vars>>
    /\ UNCHANGED <<emin_vars, heuristic_inputs, b_start, round_vars, data_vars, filter_vars>>

\* cleanup_missing_rows on the result of the first call
CleanupTwice ==
    /\ cleanup_pc = "once"
    /\ \E probe_left \in BOOLEAN :
          twice_df' = cleanup_missing_rows(once_df, table_k, probe_left)
    /\ cleanup_pc' = "twice"
    /\ UNCHANGED <<table_df, table_k, once_df, count_vars, prep_vars, sampling_vars, driver_vars>>
    /\ UNCHANGED <<emin_vars, heuristic_inputs, b_start, round_vars, data_vars, filter_vars>>

NextCleanup == CleanupOnce \/ CleanupTwice

SpecCleanup == InitCleanup /\ [][NextCleanup]_vars

SetOfRows(table) == {table[n] : n \in 1..Len(table)}

\* the table holds every triple of its instances, its algorithms and 1..=k
\* exactly once
CompleteTable(table, cores) ==
    /\ \A n, c \in 1..Len(table) : SameTriple(table[n], table[c]) => n = c
    /\ \A n, c \in 1..Len(table), size \in 1..cores :
          HasTriple(table, TripleOf(table[n].instance, table[c].algorithm, size))

\* C19: cleanup_missing_rows is idempotent: on a table that holds every
\* triple (instance, algorithm, sample size) it returns the same set of rows
\* with the same e_min, it adds no f64::MAX and the number of rows is the
\* same; so cleanup(cleanup(t)) = cleanup(t) for every table t.
C19_CleanupIdempotent ==
    /\ (cleanup_pc \in {"once", "twice"} /\ CompleteTable(table_df, table_k)) =>
          /\ SetOfRows(once_df) = SetOfRows(table_df)
          /\ Len(once_df) = Len(table_df)
    /\ cleanup_pc = "twice" =>
          /\ CompleteTable(once_df, table_k)
          /\ SetOfRows(twice_df) = SetOfRows(once_df)
          /\ Len(twice_df) = Len(once_df)

\* C19 (witness): the first call has added rows with f64::MAX to a table
\* with a computed e_min, and the second call has run on its result
C19_Witness ==
    /\ cleanup_pc = "twice"
    /\ Len(table_df) < Len(once_df)
    /\ \E n \in 1..Len(table_df) : table_df[n].e_min = Scale
    /\ Len(twice_df) = Len(once_df)
    /\ \E n \in 1..Len(twice_df) : twice_df[n].e_min = Scale
    /\ \E n \in 1..Len(twice_df) : twice_df[n].e_min = F64_MAX

-----------------------------------------------------------------------------
(* stats_by_sampling of csv_parser/utils.rs *)

\* the data frames given to stats_by_sampling: run records in any order
SampleFrames ==
    UNION {[1..n -> [instance : RawInstances, algorithm : RawAlgorithms, quality : Qualities]] :
              n \in 1..MaxRawRows}

\* the generator of the library is a function of its seed that the model
\* does not compute: a seed gives one of these states, and the state gives
\* the indices of the draw
RngStates == 0..3

\* sample_n(.., seed = None): the generator is seeded from the entropy of the system
NoSeed == 0 - 1

RECURSIVE Pow(_, _)
Pow(base, exponent) == IF exponent = 0 THEN 1 ELSE base * Pow(base, exponent - 1)

\* the i-th index of a draw with replacement from n values
DrawIndex(state, n, i) == ((state \div Pow(n, i - 1)) % n) + 1

\* a variant that gives no seed
seed_none(s) == NoSeed

\* Some(s): the seed of the draw for the sample size s
seed_of(s) == s

\* the state of the generator of one call of sample_n
generator(seed, entropy) == IF seed = NoSeed THEN entropy ELSE rng[seed]

\* the column quality of the group of one key <<algorithm, instance>>, in the
\* order of the rows
QualitiesOfGroup(d, key) ==
    LET InGroup(r) == r.algorithm = key[1] /\ r.instance = key[2]
        rows == SelectSeq(d, InGroup)
    IN [n \in 1..Len(rows) |-> rows[n].quality]

\* col("quality").sample_n(s, true, true, seed).min() of one group
sample_min(qs, state, s) == SeqMin([i \in 1..s |-> qs[DrawIndex(state, Len(qs), i)]])

\* groupby(columns): the groups, in an order that the library does not fix
groupby(d, reversed) ==
    LET keys == GroupKeys(d)
    IN IF reversed THEN [g \in 1..Len(keys) |-> keys[Len(keys) + 1 - g]] ELSE keys

\* the data frames of samples_per_repeats, concatenated: for every s in
\* 1..=sample_size and every group the minimum of the draw
samples_per_repeats(d, cores, groups, entropy) ==
    [n \in 1..(cores * Len(groups)) |->
        LET s == (n - 1) \div Len(groups) + 1
            key == groups[((n - 1) % Len(groups)) + 1]
        IN [instance |-> key[2], algorithm |-> key[1], sample_size |-> s,
            e_min |-> sample_min(QualitiesOfGroup(d, key),
                                 generator(seed_of(s), entropy), s)]]

\* sort_by_exprs(&sort_exprs, ..): ascending by the instance fields, the
\* algorithm fields and sample_size
RECURSIVE InsertByTriple(_, _)
InsertByTriple(sorted, row) ==
    IF sorted = <<>> THEN <<row>>
    ELSE IF TripleLess(row, Head(sorted))
         THEN <<row>> \o sorted
         ELSE <<Head(sorted)>> \o InsertByTriple(Tail(sorted), row)

RECURSIVE sort_by_triple(_)
sort_by_triple(rows) ==
    IF rows = <<>> THEN <<>>
    ELSE InsertByTriple(sort_by_triple(SubSeq(rows, 1, Len(rows) - 1)), rows[Len(rows)])

\* stats_by_sampling(df, sample_size, instance_fields, algorithm_fields)
stats_by_sampling(d, cores, reversed, entropy) ==
    sort_by_triple(samples_per_repeats(d, cores, groupby(d, reversed), entropy))

InitSampling ==
    /\ sample_df \in SampleFrames
    /\ sample_k \in 1..DataCores
    /\ rng \in [1..sample_k -> RngStates]
    /\ first_run = <<>>
    /\ second_run = <<>>
    /\ sample_pc = "called"
    /\ NoCount /\ NoPrep /\ NoTable /\ NoDriver
    /\ NoSolver
    /\ NoData
    /\ NoFilter

\* a run of stats_by_sampling
FirstRun ==
    /\ sample_pc = "called"
    /\ \E reversed \in BOOLEAN, entropy \in RngStates :
          first_run' = stats_by_sampling(sample_df, sample_k, reversed, entropy)
    /\ sample_pc' = "once"
    /\ UNCHANGED <<sample_df, sample_k, rng, second_run, count_vars, prep_vars, table_vars, driver_vars>>
    /\ UNCHANGED <<emin_vars, heuristic_inputs, b_start, round_vars, data_vars, filter_vars>>

\* another run of stats_by_sampling on the same data frame
SecondRun ==
    /\ sample_pc = "once"
    /\ \E reversed \in BOOLEAN, entropy \in RngStates :
          second_run' = stats_by_sampling(sample_df, sample_k, reversed, entropy)
    /\ sample_pc' = "twice"
    /\ UNCHANGED <<sample_df, sample_k, rng, first_run, count_vars, prep_vars, table_vars, driver_vars>>
    /\ UNCHANGED <<emin_vars, heuristic_inputs, b_start, round_vars, data_vars, filter_vars>>

NextSampling == FirstRun \/ SecondRun

SpecSampling == InitSampling /\ [][NextSampling]_vars

\* C20: stats_by_sampling is reproducible: the draw for the sample size s is
\* seeded with s and nothing else, so two runs on the same data frame give
\* the same e_min for every (instance, algorithm, s): the minimum of the draw
\* that the generator seeded with s makes from the qualities of the group;
\* the result is sorted by (instance, algorithm, sample_size).
C20_SamplingReproducible ==
    sample_pc = "twice" =>
        /\ first_run = second_run
        /\ Len(second_run) = Len(GroupKeys(sample_df)) * sample_k
        /\ \A n \in 1..(Len(second_run) - 1) : TripleLess(second_run[n], second_run[n + 1])
        /\ \A n \in 1..Len(second_run) :
              second_run[n].e_min =
                  sample_min(QualitiesOfGroup(sample_df,
                                 <<second_run[n].algorithm, second_run[n].instance>>),
                             rng[second_run[n].sample_size], second_run[n].sample_size)

\* C20 (witness): two runs have returned on a data frame with a group of
\* two qualities, where the draw of seed 1 misses the minimum of the group
\* and the draw of seed 2 finds it
C20_Witness ==
    /\ sample_pc = "twice"
    /\ sample_k = 2
    /\ Len(second_run) = 2
    /\ \E n, c \in 1..Len(first_run) :
          /\ first_run[n].instance = first_run[c].instance
          /\ first_run[n].algorithm = first_run[c].algorithm
          /\ first_run[n].sample_size = 1 /\ first_run[c].sample_size = 2
          /\ first_run[c].e_min < first_run[n].e_min

-----------------------------------------------------------------------------
(* stats of csv_parser/utils.rs: the lower bounds of the instances *)

\* the data frames given to stats: run records sorted as by preprocess_df
StatsFrames ==
    {d \in UNION {[1..n -> [instance : RawInstances, algorithm : RawAlgorithms,
                            quality : Qualities]] : n \in 1..MaxRawRows} :
        \A n \in 1..(Len(d) - 1) : KeyLeq(d[n], d[n + 1])}

\* the file of quality_lb_path: absent, unreadable, or a csv file with the
\* column quality_lb
LowerBoundFiles(d) ==
    {[state |-> "absent", table |-> <<>>], [state |-> "unreadable", table |-> <<>>]}
        \union {[state |-> "readable", table |-> lb] : lb \in read_quality_lb(d)}

\* read_quality_lb(path, instance_fields) -> Result<DataFrame>: the frame of
\* the file with its value column quality_lb, or the error of the reader
try_read_quality_lb(file) ==
    IF file.state = "readable"
    THEN [ok |-> TRUE, column |-> "quality_lb", values |-> file.table]
    ELSE [ok |-> FALSE, column |-> "", values |-> <<>>]

\* best_per_instance(df, instance_fields, "quality").collect(): the frame of
\* the minimum of quality per instance; min(target_field).prefix("best_")
\* names its value column best_quality
best_per_instance_df(d) ==
    [ok |-> TRUE, column |-> "best_quality", values |-> best_per_instance(d)]

\* read_quality_lb(..).unwrap_or_else(|_| best_per_instance(..).collect().unwrap())
quality_lb_of(file, d) ==
    IF try_read_quality_lb(file).ok THEN try_read_quality_lb(file) ELSE best_per_instance_df(d)

InitLowerBound ==
    /\ stats_input \in StatsFrames
    /\ stats_k \in 1..DataCores
    /\ lb_file \in LowerBoundFiles(stats_input)
    /\ quality_lb_frame = <<>>
    /\ stats_out = <<>>
    /\ stats_pc = "called"
    /\ Without_lb_vars
    /\ NoCount /\ NoPrep /\ NoTable /\ NoSampling
    /\ NoSolver
    /\ NoData
    /\ NoFilter

\* stats(..) and the collect() of its lazy frame: the select of the frame
\* takes col("quality_lb") of the join with quality_lb; a frame without this
\* column makes collect() return an error, and a failed assertion of the
\* estimator ends the program
StatsWithLowerBound ==
    /\ stats_pc = "called"
    /\ \E lb \in {quality_lb_of(lb_file, stats_input)}, std_of_one \in {Null, 0} :
          /\ quality_lb_frame' = lb
          /\ IF lb.column # "quality_lb"
             THEN stats_out' = <<>> /\ stats_pc' = "failed"
             ELSE \E rows \in {stats_rows(stats_input, stats_k, lb.values, std_of_one)} :
                     IF \E n \in 1..Len(rows) : rows[n].panicked
                     THEN stats_out' = <<>> /\ stats_pc' = "panicked"
                     ELSE stats_out' = StatsColumns(rows) /\ stats_pc' = "collected"
    /\ UNCHANGED <<stats_input, stats_k, lb_file, besides_lb_vars>>
    /\ UNCHANGED <<count_vars, prep_vars, table_vars, sampling_vars>>
    /\ UNCHANGED <<emin_vars, heuristic_inputs, b_start, round_vars, data_vars, filter_vars>>

NextLowerBound == StatsWithLowerBound

SpecLowerBound == InitLowerBound /\ [][NextLowerBound]_vars

\* C21: when the file of the lower bounds is absent or unreadable, building
\* the table of e_min does not fail: the lower bound of every instance is the
\* computed best quality of the instance, and every e_min is at least that
\* value.
C21_FallbackToBestPerInstance ==
    (stats_pc # "called" /\ lb_file.state \in {"absent", "unreadable"}) =>
        /\ stats_pc = "collected"
        /\ quality_lb_frame.values = best_per_instance(stats_input)
        /\ Len(stats_out) = Len(GroupKeys(stats_input)) * stats_k
        /\ \A n \in 1..Len(stats_out) :
              stats_out[n].e_min >= best_per_instance(stats_input)[stats_out[n].instance]

-----------------------------------------------------------------------------
(* main after Data::new: solve, Portfolio::random and the portfolios written *)

\* the number of algorithms of the data
MaxPortfolioAlgorithms == 3

PortfolioThreads == {1, 2}

\* data.algorithms: algorithm j has num_threads list[j]; the names differ
AlgorithmLists == UNION {[1..n -> PortfolioThreads] : n \in 1..MaxPortfolioAlgorithms}

\* algorithms.into_iter().filter(|&a| a.num_threads == 1): the indices of the
\* single-threaded algorithms, in their order
RECURSIVE single_threaded_algorithms(_)
single_threaded_algorithms(list) ==
    IF list = <<>> THEN <<>>
    ELSE LET front == single_threaded_algorithms(SubSeq(list, 1, Len(list) - 1))
         IN IF list[Len(list)] = 1 THEN Append(front, Len(list)) ELSE front

Min(a, b) == IF a <= b THEN a ELSE b

\* (0..num_algorithms_in_portfolio - 1).map(|_| rng.gen_range(1..=num_cores)).sorted()
core_distribution_samples(n, cores) ==
    {sample \in [1..(n - 1) -> 1..cores] :
        \A i \in 1..(n - 2) : sample[i] <= sample[i + 1]}

\* a variant that zips with [vec![1], core_distribution_sample]
cores_per_algorithm_from_one(sample, cores) ==
    [i \in 1..(Len(sample) + 1) |->
        (IF i <= Len(sample) THEN sample[i] ELSE cores) - (IF i = 1 THEN 1 ELSE sample[i - 1])]

\* [core_distribution_sample, vec![num_cores]].concat()
\*     .zip([vec![0], core_distribution_sample].concat()).map(|(a, b)| a - b)
cores_per_algorithm(sample, cores) ==
    [i \in 1..(Len(sample) + 1) |->
        (IF i <= Len(sample) THEN sample[i] ELSE cores) - (IF i = 1 THEN 0 ELSE sample[i - 1])]

\* partial_shuffle(&mut rng, amount).0: amount distinct elements, in any order
partial_shuffle(elements, amount) ==
    {[i \in 1..amount |-> elements[choice[i]]] :
        choice \in {c \in [1..amount -> 1..Len(elements)] :
                       \A i, j \in 1..amount : c[i] = c[j] => i = j}}

\* the resource assignments of Portfolio::random(algorithms, num_cores, seed),
\* for the draws that the generator of some seed makes
portfolio_random(list, cores) ==
    LET single == single_threaded_algorithms(list)
    IN IF Len(single) = 0 THEN {<<>>}
       ELSE UNION {
               {[i \in 1..n |-> [algorithm |-> random_algorithms[i],
                                 cores |-> cores_per_algorithm(sample, cores)[i]]] :
                   sample \in core_distribution_samples(n, cores),
                   random_algorithms \in partial_shuffle(single, n)} :
               n \in 1..Min(Len(single), cores)}

\* the portfolios of solver::solve, which the model does not compute: all
\* cores to one algorithm
SolverPortfolios(list, cores) ==
    {<<[algorithm |-> j, cores |-> cores]>> : j \in 1..Len(list)}

InitMain ==
    /\ data_algorithms \in AlgorithmLists
    /\ main_cores \in 1..MaxCores
    /\ args_random_portfolio \in BOOLEAN
    /\ args_initial_portfolio \in BOOLEAN
    /\ initial_portfolio = <<>> /\ final_portfolio = <<>> /\ random_portfolio = <<>>
    /\ portfolios = <<>>
    /\ main_pc = "data"
    /\ Without_main_vars
    /\ NoCount /\ NoPrep /\ NoTable /\ NoSampling
    /\ NoSolver
    /\ NoData
    /\ NoFilter

\* main: OptimizationResult { initial_portfolio, final_portfolio, .. } = solve(..)?
Solve ==
    /\ main_pc = "data"
    /\ initial_portfolio' \in SolverPortfolios(data_algorithms, main_cores)
    /\ final_portfolio' \in SolverPortfolios(data_algorithms, main_cores)
    /\ main_pc' = "solved"
    /\ UNCHANGED <<data_algorithms, main_cores, args_random_portfolio, args_initial_portfolio,
                   random_portfolio, portfolios, besides_main_vars>>
    /\ UNCHANGED <<count_vars, prep_vars, table_vars, sampling_vars>>
    /\ UNCHANGED <<emin_vars, heuristic_inputs, b_start, round_vars, data_vars, filter_vars>>

\* main: random_portfolio = Portfolio::random(&data.algorithms, num_cores, 42)
RandomPortfolio ==
    /\ main_pc = "solved"
    /\ random_portfolio' \in portfolio_random(data_algorithms, main_cores)
    /\ main_pc' = "random"
    /\ UNCHANGED <<data_algorithms, main_cores, args_random_portfolio, args_initial_portfolio,
                   initial_portfolio, final_portfolio, portfolios, besides_main_vars>>
    /\ UNCHANGED <<count_vars, prep_vars, table_vars, sampling_vars>>
    /\ UNCHANGED <<emin_vars, heuristic_inputs, b_start, round_vars, data_vars, filter_vars>>

\* main: the vector portfolios, written to executor.json and to one file per portfolio
WritePortfolios ==
    /\ main_pc = "random"
    /\ portfolios' =
          <<[name |-> "final_portfolio", resource_assignments |-> final_portfolio]>>
          \o (IF args_random_portfolio
              THEN <<[name |-> "random_portfolio", resource_assignments |-> random_portfolio]>>
              ELSE <<>>)
          \o (IF args_initial_portfolio
              THEN <<[name |-> "initial_portfolio", resource_assignments |-> initial_portfolio]>>
              ELSE <<>>)
    /\ main_pc' = "written"
    /\ UNCHANGED <<data_algorithms, main_cores, args_random_portfolio, args_initial_portfolio,
                   initial_portfolio, final_portfolio, random_portfolio, besides_main_vars>>
    /\ UNCHANGED <<count_vars, prep_vars, table_vars, sampling_vars>>
    /\ UNCHANGED <<emin_vars, heuristic_inputs, b_start, round_vars, data_vars, filter_vars>>

NextMain == Solve \/ RandomPortfolio \/ WritePortfolios

SpecMain == InitMain /\ [][NextMain]_vars

HasSequentialAlgorithm == \E j \in 1..Len(data_algorithms) : data_algorithms[j] = 1

Written(name) == \E n \in 1..Len(portfolios) : portfolios[n].name = name

\* C22: Portfolio::random assigns cores that sum to num_cores when an
\* algorithm has num_threads = 1 and num_cores >= 1, for every seed; every
\* assignment is a non-negative whole number of cores for a distinct
\* single-threaded algorithm; without a single-threaded algorithm the
\* portfolio has no assignment.
C22_RandomSumsToCores ==
    main_pc \in {"random", "written"} =>
        IF HasSequentialAlgorithm
        THEN /\ SeqSum([i \in 1..Len(random_portfolio) |-> random_portfolio[i].cores]) = main_cores
             /\ \A i \in 1..Len(random_portfolio) :
                   /\ random_portfolio[i].cores \in Nat
                   /\ random_portfolio[i].algorithm \in 1..Len(data_algorithms)
                   /\ data_algorithms[random_portfolio[i].algorithm] = 1
                   /\ \A j \in 1..Len(random_portfolio) :
                         random_portfolio[i].algorithm = random_portfolio[j].algorithm => i = j
        ELSE random_portfolio = <<>>

\* C22 (witness): a random portfolio of two of the single-threaded algorithms
\* of a list with an algorithm of two threads, in another order than in the
\* list, the second with no core
C22_Witness ==
    /\ main_pc = "random"
    /\ \E j \in 1..Len(data_algorithms) : data_algorithms[j] = 2
    /\ Len(random_portfolio) = 2
    /\ random_portfolio[2].algorithm < random_portfolio[1].algorithm
    /\ random_portfolio[1].cores = main_cores
    /\ random_portfolio[2].cores = 0

C24_InitialWrittenIfDifferent ==
    main_pc = "written" =>
        (Written("initial_portfolio")
            <=> (args_initial_portfolio /\ initial_portfolio # final_portfolio))

-----------------------------------------------------------------------------
(* Claims about the greedy loop of round_to_sum, checked under SpecRound *)

\* the greedy loop runs to its end
SpecRoundFair == SpecRound /\ WF_vars(RoundStart \/ RoundIncrement \/ RoundReturn)

\* the algorithms that fit the remaining budget with the largest loss among them
LargestFitting ==
    {a \in DOMAIN steps :
        /\ steps[a] <= remaining
        /\ \A b \in DOMAIN steps : steps[b] <= remaining => ~LossLess(losses[a], losses[b])}

\* C25: when several algorithms that fit the remaining budget have the same
\* largest loss, the greedy step of round_to_sum increments the first of them
\* in the order of the algorithms, not a later one.
C25_TieGoesToFirst ==
    [][(round_pc = "loop" /\ rounded' # rounded) =>
          \E a \in LargestFitting :
              /\ \A b \in LargestFitting : a <= b
              /\ rounded' = [rounded EXCEPT ![a] = @ + 1]]_vars

\* C25 (witness): on the arguments of the test, at remaining 3 the entries 2
\* and 5 tie with the loss 0.6; entry 2 is incremented, entry 5 is not yet
C25_Witness ==
    /\ round_pc = "loop"
    /\ fractions = FixtureFractions
    /\ rounded = <<2, 2, 1, 1, 1>>
    /\ LossEqual(loss_share(fractions)[2], loss_share(fractions)[5])
    /\ losses[5] = loss_share(fractions)[5]
    /\ remaining = 1

\* C26: the greedy loop of round_to_sum ends for every input with steps >= 1:
\* every iteration lowers the remaining budget by at least 1; when no thread
\* count fits the budget that remains the loop stops and returns, and when
\* budget is left then, the weighted sum of the result is below num_cores.
C26_LoopTerminates ==
    /\ [][(round_pc = "loop" /\ rounded' # rounded) => remaining' <= remaining - 1]_vars
    /\ (round_pc = "call") ~> (round_pc = "done")
    /\ [](round_pc = "done" =>
            /\ \A a \in DOMAIN steps : steps[a] >= 1 /\ steps[a] > remaining
            /\ remaining >= 0
            /\ WeightedSum(rounded, steps) = sum - remaining
            /\ remaining > 0 => WeightedSum(rounded, steps) < sum)

\* C26 (witness): the loop has made an increment and has stopped with budget
\* left, no algorithm being single-threaded
C26_Witness ==
    /\ round_pc = "done"
    /\ remaining > 0
    /\ rounded # floor_share(fractions)
    /\ \A a \in DOMAIN steps : steps[a] > 1
    /\ WeightedSum(rounded, steps) < sum

-----------------------------------------------------------------------------
(* Claims about the reference of the slowdown filter, checked under SpecFilter *)

-----------------------------------------------------------------------------
(* Claims about the draws of stats_by_sampling, checked under SpecSampling *)

\* C28: for every sample size s, stats_by_sampling sets the e_min of a group
\* (instance, algorithm) to the minimum of s values drawn without replacement
\* from the qualities of the group: it is one of these qualities, and when s
\* is the number of runs of the group it is the minimum quality of the group.
C28_MinimumWithoutReplacement ==
    sample_pc \in {"once", "twice"} =>
        \A n \in 1..Len(first_run) :
            LET qs == QualitiesOfGroup(sample_df, <<first_run[n].algorithm, first_run[n].instance>>)
            IN /\ \E i \in 1..Len(qs) : qs[i] = first_run[n].e_min
               /\ first_run[n].sample_size = Len(qs) => first_run[n].e_min = SeqMin(qs)

-----------------------------------------------------------------------------
(* get_a_start of solver.rs: the warm start of the assignment variables a.
   stats is the tensor (instances x algorithms x num_cores) of Data; the
   indices i, j, k and the position pos count from 0 as in the source. *)

\* the sizes of the three dimensions of the tensors that are enumerated
TensorSizes == {1, 2}

\* the values of the entries: two finite expectations and the f64::MAX of an
\* algorithm that does not fit the number of cores
TensorValues == {1 * Scale, 2 * Scale, F64_MAX}

\* every tensor stats[i][j][k] of one shape
Tensors(n, mm, cores) == [1..n -> [1..mm -> [1..cores -> TensorValues]]]

\* instance.iter(): the entries of one instance in row-major order
row_major(instance, cores) ==
    [p \in 1..(Len(instance) * cores) |->
        instance[((p - 1) \div cores) + 1][((p - 1) % cores) + 1]]

\* variant of position_min_by: the position of the last minimum
position_min_by_last(elements) ==
    CHOOSE p \in 0..(Len(elements) - 1) :
        /\ \A q \in 0..(Len(elements) - 1) : elements[p + 1] <= elements[q + 1]
        /\ \A q \in (p + 1)..(Len(elements) - 1) : elements[q + 1] > elements[p + 1]

\* Itertools::position_min_by with partial_cmp: the position of the first of
\* the minimal elements
position_min_by(elements) ==
    CHOOSE p \in 0..(Len(elements) - 1) :
        /\ \A q \in 0..(Len(elements) - 1) : elements[p + 1] <= elements[q + 1]
        /\ \A q \in 0..(p - 1) : elements[q + 1] > elements[p + 1]

\* get_a_start(stats, num_cores): one triple (i, j, k) per instance
get_a_start(tensor, cores) ==
    [i1 \in 1..Len(tensor) |->
        LET pos == position_min_by(row_major(tensor[i1], cores))
        IN <<i1 - 1, pos \div cores, pos % cores>>]

InitAStart ==
    /\ NoSolver /\ NoData /\ NoFilter
    /\ NoCount /\ NoPrep /\ NoTable /\ NoSampling /\ Without_a_start_vars
    /\ a_num_cores \in TensorSizes
    /\ \E n \in TensorSizes, mm \in TensorSizes : a_stats \in Tensors(n, mm, a_num_cores)
    /\ a_start = <<>>
    /\ a_start_pc = "call"

\* the call get_a_start(&data.stats, num_cores) of solve
GetAStart ==
    /\ a_start_pc = "call"
    /\ a_start' = get_a_start(a_stats, a_num_cores)
    /\ a_start_pc' = "returned"
    /\ UNCHANGED <<a_stats, a_num_cores>>
    /\ UNCHANGED <<emin_vars, heuristic_inputs, b_start, round_vars, data_vars, filter_vars>>
    /\ UNCHANGED <<count_vars, prep_vars, table_vars, sampling_vars, besides_a_start_vars>>

NextAStart == GetAStart

SpecAStart == InitAStart /\ [][NextAStart]_vars

-----------------------------------------------------------------------------
(* Claims about get_a_start, checked under SpecAStart *)

\* C29: get_a_start returns exactly one triple (i, j, k) per instance i, in
\* the order of the instances; stats[i][j][k] is the smallest value of
\* stats[i] over all algorithms and all k < num_cores, and of the positions
\* of this value (j, k) is the first in row-major order.
C29_AStartIsFirstMinimum ==
    a_start_pc = "returned" =>
        /\ Len(a_start) = Len(a_stats)
        /\ \A i1 \in 1..Len(a_stats) :
            LET j == a_start[i1][2]
                r == a_start[i1][3]
            IN /\ a_start[i1][1] = i1 - 1
               /\ j \in 0..(Len(a_stats[i1]) - 1)
               /\ r \in 0..(a_num_cores - 1)
               /\ \A j2 \in 0..(Len(a_stats[i1]) - 1), r2 \in 0..(a_num_cores - 1) :
                    /\ a_stats[i1][j + 1][r + 1] <= a_stats[i1][j2 + 1][r2 + 1]
                    /\ (j2 < j \/ (j2 = j /\ r2 < r)) =>
                           a_stats[i1][j + 1][r + 1] < a_stats[i1][j2 + 1][r2 + 1]

\* two instances, two algorithms, two cores: the minimum of the second
\* instance is a tie between the second algorithm's two entries, and the
\* first of them is returned
C29_Witness ==
    /\ a_start_pc = "returned"
    /\ a_num_cores = 2
    /\ a_stats = <<<< <<1000, 2000>>, <<2000, F64_MAX>> >>,
                   << <<2000, F64_MAX>>, <<1000, 1000>> >> >>
    /\ a_start = << <<0, 0, 0>>, <<1, 1, 0>> >>

-----------------------------------------------------------------------------
(* Claims about the pairing of the counts with the algorithms in solve,
   checked under SpecCount *)

\* the field best_per_instance_count of Data: the column count of the
\* ranking, one entry per row, in the order of the rows
data_best_per_instance_count(table) == [n \in 1..Len(table) |-> table[n].count]

====
